---- MODULE Spec2Model ----
(***************************************************************************)
(* Model of monitor_script.py: a single-shot PDF monitor that downloads a  *)
(* document, extracts its text, compares it with the stored snapshot,      *)
(* summarises the difference, mails a report and stores the new snapshot.  *)
(*                                                                         *)
(* Texts are sequences of one-character strings.  The required            *)
(* configuration (PDF_URL, CLAUDE_API_KEY, SENDER_EMAIL, SENDER_PASSWORD,  *)
(* RECIPIENT_EMAIL) is taken to be present, as the program requires.       *)
(***************************************************************************)
EXTENDS Naturals, Sequences, FiniteSets

(***************************************************************************)
(* Bounds.                                                                 *)
(***************************************************************************)
MaxLen == 3      \* longest text given to detect_changes in SpecDetect
MaxPages == 3    \* most pages of a downloaded document

(***************************************************************************)
(* Characters and texts.                                                   *)
(***************************************************************************)
NL == "\n"
SP == " "
Whitespace == {SP, NL}
Chars == {"a", "b", SP, NL}

TextsUpTo(n) == UNION {[1..k -> Chars] : k \in 0..n}

Min(x, y) == IF x < y THEN x ELSE y
Max(x, y) == IF x > y THEN x ELSE y

\* s[:n]
Take(s, n) == SubSeq(s, 1, Min(n, Len(s)))

\* s[n:]
Drop(s, n) == SubSeq(s, n + 1, Len(s))

StartsWith(s, p) == Len(s) >= Len(p) /\ SubSeq(s, 1, Len(p)) = p

RECURSIVE Flatten(_)
\* ''.join(seq)
Flatten(ss) == IF ss = <<>> THEN <<>> ELSE Head(ss) \o Flatten(Tail(ss))

RECURSIVE lstrip(_)
lstrip(s) == IF s # <<>> /\ Head(s) \in Whitespace THEN lstrip(Tail(s)) ELSE s

RECURSIVE rstrip(_)
rstrip(s) ==
    IF s # <<>> /\ s[Len(s)] \in Whitespace
    THEN rstrip(SubSeq(s, 1, Len(s) - 1))
    ELSE s

\* str.strip()
strip(s) == rstrip(lstrip(s))

\* position of the first line terminator of s, 0 when there is none
FirstNL(s) ==
    IF \E i \in 1..Len(s) : s[i] = NL
    THEN CHOOSE i \in 1..Len(s) : s[i] = NL /\ \A j \in 1..(i - 1) : s[j] # NL
    ELSE 0

RECURSIVE splitlines(_)
\* str.splitlines(keepends=True)
splitlines(s) ==
    IF s = <<>> THEN <<>>
    ELSE LET k == FirstNL(s) IN
         IF k = 0 THEN <<s>>
         ELSE <<SubSeq(s, 1, k)>> \o splitlines(Drop(s, k))

Digit(d) == <<"0", "1", "2", "3", "4", "5", "6", "7", "8", "9">>[d + 1]

RECURSIVE Decimal(_)
\* '{}'.format(n)
Decimal(n) ==
    IF n < 10 THEN <<Digit(n)>>
    ELSE Decimal(n \div 10) \o <<Digit(n % 10)>>

(***************************************************************************)
(* difflib.unified_diff as called by detect_changes.  Indices are 0-based  *)
(* and half-open as in Python: a[i1:i2] is SubSeq(a, i1 + 1, i2).          *)
(***************************************************************************)
Slice(a, i1, i2) == SubSeq(a, i1 + 1, i2)

\* the blocks <<i, j, k>> with a[i:i+k] = b[j:j+k], k > 0, inside the window
CommonBlocks(a, b, alo, ahi, blo, bhi) ==
    {m \in (alo..ahi) \X (blo..bhi) \X (1..Max(ahi, bhi)) :
        /\ m[1] + m[3] <= ahi
        /\ m[2] + m[3] <= bhi
        /\ Slice(a, m[1], m[1] + m[3]) = Slice(b, m[2], m[2] + m[3])}

\* SequenceMatcher.find_longest_match: longest block, then earliest in a,
\* then earliest in b; <<alo, blo, 0>> when nothing matches
find_longest_match(a, b, alo, ahi, blo, bhi) ==
    LET C == CommonBlocks(a, b, alo, ahi, blo, bhi) IN
    IF C = {} THEN <<alo, blo, 0>>
    ELSE CHOOSE m \in C : \A o \in C :
            \/ m[3] > o[3]
            \/ m[3] = o[3] /\ m[1] < o[1]
            \/ m[3] = o[3] /\ m[1] = o[1] /\ m[2] <= o[2]

RECURSIVE get_matching_blocks(_, _, _, _, _, _)
\* SequenceMatcher.get_matching_blocks, without the closing sentinel
get_matching_blocks(a, b, alo, ahi, blo, bhi) ==
    LET m == find_longest_match(a, b, alo, ahi, blo, bhi) IN
    IF m[3] = 0 THEN <<>>
    ELSE get_matching_blocks(a, b, alo, m[1], blo, m[2])
         \o <<m>>
         \o get_matching_blocks(a, b, m[1] + m[3], ahi, m[2] + m[3], bhi)

\* the opcode for the gap a[i:ai], b[j:bj] before a matching block
GapOpcode(i, ai, j, bj) ==
    IF i < ai /\ j < bj THEN <<[tag |-> "replace", i1 |-> i, i2 |-> ai, j1 |-> j, j2 |-> bj]>>
    ELSE IF i < ai THEN <<[tag |-> "delete", i1 |-> i, i2 |-> ai, j1 |-> j, j2 |-> bj]>>
    ELSE IF j < bj THEN <<[tag |-> "insert", i1 |-> i, i2 |-> ai, j1 |-> j, j2 |-> bj]>>
    ELSE <<>>

RECURSIVE OpcodesFrom(_, _, _)
OpcodesFrom(blocks, i, j) ==
    IF blocks = <<>> THEN <<>>
    ELSE LET m == Head(blocks) IN
         GapOpcode(i, m[1], j, m[2])
         \o (IF m[3] > 0
             THEN <<[tag |-> "equal", i1 |-> m[1], i2 |-> m[1] + m[3],
                     j1 |-> m[2], j2 |-> m[2] + m[3]]>>
             ELSE <<>>)
         \o OpcodesFrom(Tail(blocks), m[1] + m[3], m[2] + m[3])

\* SequenceMatcher.get_opcodes
get_opcodes(a, b) ==
    OpcodesFrom(get_matching_blocks(a, b, 0, Len(a), 0, Len(b))
                    \o <<<<Len(a), Len(b), 0>>>>, 0, 0)

\* lines of context around a change (difflib's default n)
ContextLines == 3

\* SequenceMatcher.get_grouped_opcodes(3): the leading and trailing equal
\* runs are cut to the context; the texts modelled have fewer than
\* 2 * ContextLines + 2 lines, so the changes always form one group
get_grouped_opcodes(a, b) ==
    LET codes == get_opcodes(a, b)
        n == Len(codes)
        cutFirst(cs) ==
            IF Head(cs).tag = "equal"
            THEN <<[Head(cs) EXCEPT !.i1 = Max(@, Head(cs).i2 - ContextLines),
                                    !.j1 = Max(@, Head(cs).j2 - ContextLines)]>>
                 \o Tail(cs)
            ELSE cs
        cutLast(cs) ==
            IF cs[Len(cs)].tag = "equal"
            THEN SubSeq(cs, 1, Len(cs) - 1)
                 \o <<[cs[Len(cs)] EXCEPT !.i2 = Min(@, cs[Len(cs)].i1 + ContextLines),
                                          !.j2 = Min(@, cs[Len(cs)].j1 + ContextLines)]>>
            ELSE cs
    IN  IF n = 0 \/ (n = 1 /\ codes[1].tag = "equal") THEN <<>>
        ELSE <<cutLast(cutFirst(codes))>>

\* difflib._format_range_unified
format_range_unified(start, stop) ==
    IF stop - start = 1 THEN Decimal(start + 1)
    ELSE IF stop = start THEN Decimal(start) \o <<",">> \o Decimal(0)
    ELSE Decimal(start + 1) \o <<",">> \o Decimal(stop - start)

RECURSIVE Prefixed(_, _)
\* every line of ls with the edit mark c in front
Prefixed(c, ls) == IF ls = <<>> THEN <<>> ELSE <<<<c>> \o Head(ls)>> \o Prefixed(c, Tail(ls))

OpcodeLines(a, b, op) ==
    IF op.tag = "equal" THEN Prefixed(SP, Slice(a, op.i1, op.i2))
    ELSE (IF op.tag \in {"replace", "delete"} THEN Prefixed("-", Slice(a, op.i1, op.i2)) ELSE <<>>)
         \o (IF op.tag \in {"replace", "insert"} THEN Prefixed("+", Slice(b, op.j1, op.j2)) ELSE <<>>)

RECURSIVE GroupLines(_, _, _)
GroupLines(a, b, group) ==
    IF group = <<>> THEN <<>>
    ELSE OpcodeLines(a, b, Head(group)) \o GroupLines(a, b, Tail(group))

FromFile == <<"P", "r", "e", "v", "i", "o", "u", "s", " ", "W", "e", "e", "k">>
ToFile == <<"C", "u", "r", "r", "e", "n", "t", " ", "W", "e", "e", "k">>
FromMark == <<"-", "-", "-", " ">>
ToMark == <<"+", "+", "+", " ">>
HunkMark == <<"@", "@">>

HunkHeader(group, lineterm) ==
    LET first == Head(group)
        last == group[Len(group)]
    IN  HunkMark \o <<" ", "-">> \o format_range_unified(first.i1, last.i2)
        \o <<" ", "+">> \o format_range_unified(first.j1, last.j2)
        \o <<" ">> \o HunkMark \o lineterm

RECURSIVE HunksLines(_, _, _, _)
HunksLines(a, b, groups, lineterm) ==
    IF groups = <<>> THEN <<>>
    ELSE <<HunkHeader(Head(groups), lineterm)>>
         \o GroupLines(a, b, Head(groups))
         \o HunksLines(a, b, Tail(groups), lineterm)

\* list(difflib.unified_diff(a, b, fromfile=..., tofile=..., lineterm=lineterm))
unified_diff(a, b, lineterm) ==
    LET groups == get_grouped_opcodes(a, b) IN
    IF groups = <<>> THEN <<>>
    ELSE <<FromMark \o FromFile \o lineterm, ToMark \o ToFile \o lineterm>>
         \o HunksLines(a, b, groups, lineterm)

(***************************************************************************)
(* Standard unified-diff patch semantics (patch(1), strict: no fuzz).  A   *)
(* patch is read line by line; every line of it ends with a terminator.   *)
(* Two file header lines are followed by hunks; a hunk is a header        *)
(* "@@ -l,s +l,s @@" and s body lines marked ' ', '-' or '+', and is      *)
(* applied where its context and removed lines match the original.        *)
(***************************************************************************)
PatchFailed == [ok |-> FALSE, text |-> <<>>]

EndsWithNL(l) == l # <<>> /\ l[Len(l)] = NL

DigitChars == {Digit(d) : d \in 0..9}

DigitValue(c) == CHOOSE d \in 0..9 : Digit(d) = c

IsNumber(ds) == ds # <<>> /\ \A i \in 1..Len(ds) : ds[i] \in DigitChars

RECURSIVE ParseNat(_)
ParseNat(ds) ==
    IF ds = <<>> THEN 0
    ELSE 10 * ParseNat(SubSeq(ds, 1, Len(ds) - 1)) + DigitValue(ds[Len(ds)])

\* position of the first c in s, 0 when there is none
FirstOf(s, c) ==
    IF \E i \in 1..Len(s) : s[i] = c
    THEN CHOOSE i \in 1..Len(s) : s[i] = c /\ \A j \in 1..(i - 1) : s[j] # c
    ELSE 0

RECURSIVE SplitOn(_, _)
\* s.split(c)
SplitOn(s, c) ==
    LET k == FirstOf(s, c) IN
    IF k = 0 THEN <<s>>
    ELSE <<SubSeq(s, 1, k - 1)>> \o SplitOn(Drop(s, k), c)

\* "l" or "l,s" with the mark ('-' or '+') in front
ParseRange(r, mark) ==
    IF r = <<>> \/ Head(r) # mark THEN [ok |-> FALSE, start |-> 0, len |-> 0]
    ELSE LET parts == SplitOn(Tail(r), ",") IN
         IF Len(parts) = 1 /\ IsNumber(parts[1])
         THEN [ok |-> TRUE, start |-> ParseNat(parts[1]), len |-> 1]
         ELSE IF Len(parts) = 2 /\ IsNumber(parts[1]) /\ IsNumber(parts[2])
         THEN [ok |-> TRUE, start |-> ParseNat(parts[1]), len |-> ParseNat(parts[2])]
         ELSE [ok |-> FALSE, start |-> 0, len |-> 0]

\* "@@ -l,s +l,s @@" and a terminator
ParseHunkHeader(line) ==
    LET bad == [ok |-> FALSE, oldStart |-> 0, oldLen |-> 0, newStart |-> 0, newLen |-> 0]
        parts == SplitOn(SubSeq(line, 1, Len(line) - 1), SP)
    IN  IF ~EndsWithNL(line) \/ Len(parts) # 4 THEN bad
        ELSE IF parts[1] # HunkMark \/ parts[4] # HunkMark THEN bad
        ELSE LET o == ParseRange(parts[2], "-")
                 n == ParseRange(parts[3], "+")
             IN  IF ~o.ok \/ ~n.ok THEN bad
                 ELSE [ok |-> TRUE, oldStart |-> o.start, oldLen |-> o.len,
                       newStart |-> n.start, newLen |-> n.len]

IsBodyLine(l) == EndsWithNL(l) /\ Head(l) \in {SP, "-", "+"}

RECURSIVE MarkedContents(_, _)
\* the contents of the lines of body whose mark is in marks
MarkedContents(body, marks) ==
    IF body = <<>> THEN <<>>
    ELSE (IF Head(Head(body)) \in marks THEN <<Tail(Head(body))>> ELSE <<>>)
         \o MarkedContents(Tail(body), marks)

\* the number of lines after the header that form the body of the hunk h,
\* Len(rest) + 1 when they do not form one
BodyLength(rest, h) ==
    LET fits(k) ==
            /\ \A i \in 1..k : IsBodyLine(rest[i])
            /\ Len(MarkedContents(SubSeq(rest, 1, k), {SP, "-"})) = h.oldLen
            /\ Len(MarkedContents(SubSeq(rest, 1, k), {SP, "+"})) = h.newLen
            /\ (k = Len(rest) \/ ~IsBodyLine(rest[k + 1]))
    IN  IF \E k \in 0..Len(rest) : fits(k)
        THEN CHOOSE k \in 0..Len(rest) : fits(k)
        ELSE Len(rest) + 1

RECURSIVE ApplyHunks(_, _, _)
\* old: the lines of the original; pos: how many of them are already
\* copied; plines: the patch lines not yet read
ApplyHunks(old, pos, plines) ==
    IF plines = <<>> THEN [ok |-> TRUE, lines |-> Slice(old, pos, Len(old))]
    ELSE LET h == ParseHunkHeader(Head(plines))
             rest == Tail(plines)
             k == BodyLength(rest, h)
         IN  IF ~h.ok \/ k > Len(rest) THEN [ok |-> FALSE, lines |-> <<>>]
             ELSE LET body == SubSeq(rest, 1, k)
                      start == IF h.oldLen = 0 THEN h.oldStart ELSE h.oldStart - 1
                      expect == MarkedContents(body, {SP, "-"})
                  IN  IF \/ h.oldLen > 0 /\ h.oldStart = 0
                         \/ start < pos
                         \/ start + h.oldLen > Len(old)
                         \/ Slice(old, start, start + h.oldLen) # expect
                      THEN [ok |-> FALSE, lines |-> <<>>]
                      ELSE LET r == ApplyHunks(old, start + h.oldLen, Drop(rest, k)) IN
                           IF ~r.ok THEN r
                           ELSE [ok |-> TRUE,
                                 lines |-> Slice(old, pos, start)
                                           \o MarkedContents(body, {SP, "+"})
                                           \o r.lines]

\* the text patch(1) makes of original under the unified diff diff
Patch(original, diff) ==
    LET pl == splitlines(diff) IN
    IF \/ Len(pl) < 3
       \/ ~StartsWith(pl[1], FromMark) \/ ~EndsWithNL(pl[1])
       \/ ~StartsWith(pl[2], ToMark) \/ ~EndsWithNL(pl[2])
    THEN PatchFailed
    ELSE LET r == ApplyHunks(splitlines(original), 0, Drop(pl, 2)) IN
         IF r.ok THEN [ok |-> TRUE, text |-> Flatten(r.lines)] ELSE PatchFailed

(***************************************************************************)
(* The change detector.                                                    *)
(***************************************************************************)
FirstRunStatus == "First run - no previous content to compare"
UnchangedStatus == "No changes detected"
ChangedStatus == "Changes detected"

\* the lineterm argument detect_changes passes to unified_diff
DiffLineTerm == <<>>

\* detect_changes comparing the previous text against the trimmed current text
detect_changes_strip_one_side(old_content, new_content) ==
    IF old_content = <<>> THEN <<FirstRunStatus, new_content>>
    ELSE IF old_content = strip(new_content) THEN <<UnchangedStatus, <<>>>>
    ELSE <<ChangedStatus,
           Flatten(unified_diff(splitlines(old_content), splitlines(new_content),
                                DiffLineTerm))>>

\* detect_changes taking a blank previous text for a missing one
detect_changes_blank_is_first_run(old_content, new_content) ==
    IF strip(old_content) = <<>> THEN <<FirstRunStatus, new_content>>
    ELSE IF strip(old_content) = strip(new_content) THEN <<UnchangedStatus, <<>>>>
    ELSE <<ChangedStatus,
           Flatten(unified_diff(splitlines(old_content), splitlines(new_content),
                                DiffLineTerm))>>

\* detect_changes handing out the trimmed current text on a first run
detect_changes_first_run_stripped(old_content, new_content) ==
    IF old_content = <<>> THEN <<FirstRunStatus, strip(new_content)>>
    ELSE IF strip(old_content) = strip(new_content) THEN <<UnchangedStatus, <<>>>>
    ELSE <<ChangedStatus,
           Flatten(unified_diff(splitlines(old_content), splitlines(new_content),
                                DiffLineTerm))>>

\* detect_changes handing out no payload on a first run
detect_changes_first_run_no_payload(old_content, new_content) ==
    IF old_content = <<>> THEN <<FirstRunStatus, <<>>>>
    ELSE IF strip(old_content) = strip(new_content) THEN <<UnchangedStatus, <<>>>>
    ELSE <<ChangedStatus,
           Flatten(unified_diff(splitlines(old_content), splitlines(new_content),
                                DiffLineTerm))>>

\* detect_changes(old_content, new_content): <<status, payload>>
detect_changes(old_content, new_content) ==
    IF old_content = <<>> THEN <<FirstRunStatus, new_content>>
    ELSE IF strip(old_content) = strip(new_content) THEN <<UnchangedStatus, <<>>>>
    ELSE <<ChangedStatus,
           Flatten(unified_diff(splitlines(old_content), splitlines(new_content),
                                DiffLineTerm))>>

(***************************************************************************)
(* The text extractor: a downloaded document is its sequence of page       *)
(* texts; a page without extractable text is the empty text.              *)
(***************************************************************************)
PageTexts == TextsUpTo(1)

Documents == UNION {[1..k -> PageTexts] : k \in 0..MaxPages}

RECURSIVE PagesText_no_skip(_)
\* the loop over pdf.pages adding a line for every page, empty or not
PagesText_no_skip(pages) ==
    IF pages = <<>> THEN <<>>
    ELSE Head(pages) \o <<NL>> \o PagesText_no_skip(Tail(pages))

RECURSIVE PagesText(_)
\* text_content after the loop over pdf.pages
PagesText(pages) ==
    IF pages = <<>> THEN <<>>
    ELSE (IF Head(pages) # <<>> THEN Head(pages) \o <<NL>> ELSE <<>>)
         \o PagesText(Tail(pages))

\* download_and_extract_pdf(url) when the download and the parse succeed
download_and_extract_pdf(pages) == strip(PagesText(pages))

\* the exceptions download_and_extract_pdf raises
FetchErrors ==
    {"Failed to download/extract PDF: ConnectionError",
     "Failed to download/extract PDF: Timeout",
     "Failed to download/extract PDF: HTTPError",
     "Failed to download/extract PDF: PDFSyntaxError"}

(***************************************************************************)
(* The snapshot store: previous_content.txt.                               *)
(***************************************************************************)
AbsentFile == [exists |-> FALSE, content |-> <<>>]

\* load_previous_content()
load_previous_content(f) == IF f.exists THEN f.content ELSE <<>>

\* the errors of open(..., 'r') other than FileNotFoundError
LoadErrors == {"PermissionError: previous_content.txt"}

\* save_current_content ending the file with a line terminator
save_current_content_newline(content) == [exists |-> TRUE, content |-> content \o <<NL>>]

\* save_current_content(content), when the write succeeds
save_current_content(content) == [exists |-> TRUE, content |-> content]

\* the errors of open(..., 'w') and of the write
SaveErrors == {"OSError: previous_content.txt"}

\* the file after a failed save: untouched when open() failed, else
\* truncated by open() and holding what was written before the failure
FailedSaveOutcomes(f, content) ==
    {f} \cup {[exists |-> TRUE, content |-> SubSeq(content, 1, k)] :
                 k \in 0..Max(0, Len(content) - 1)}

(***************************************************************************)
(* The summarizer.                                                         *)
(***************************************************************************)
PromptDiffLimit == 8000
FallbackDiffLimit == 2000

NoAnalysis == [kind |-> "none", error |-> "", excerpt |-> <<>>]

\* analyze_changes_with_claude on an empty diff
NothingToAnalyze == [kind |-> "No changes to analyze.", error |-> "", excerpt |-> <<>>]

\* message.content[0].text
Generated == [kind |-> "generated", error |-> "", excerpt |-> <<>>]

LlmErrors == {"APIError"}

\* a fallback summary carrying the whole diff
Fallback_whole_diff(e, diff) ==
    [kind |-> "Error analyzing changes with Claude", error |-> e, excerpt |-> diff]

\* the fallback summary of the except branch
Fallback(e, diff) ==
    [kind |-> "Error analyzing changes with Claude", error |-> e,
     excerpt |-> Take(diff, FallbackDiffLimit)]

\* the part of the diff embedded in the prompt
Prompt(diff) == Take(diff, PromptDiffLimit)

(***************************************************************************)
(* Reports.                                                                *)
(***************************************************************************)
PdfUrl == "https://example.org/monitored.pdf"

NoChangesSubject == "PDF Monitor: No Changes This Week"
ChangesSubject == "PDF Monitor: Changes Detected"
ErrorSubject == "PDF Monitor: Error Occurred"

\* the "no changes" report carrying the status line of the other report
NoChangesBody_updated ==
    [title |-> "Weekly PDF Monitoring Report",
     message |-> "No changes detected in the monitored PDF since last week.",
     summary |-> NoAnalysis, error |-> "", url |-> PdfUrl,
     status |-> "Status: Updated"]

NoChangesBody ==
    [title |-> "Weekly PDF Monitoring Report",
     message |-> "No changes detected in the monitored PDF since last week.",
     summary |-> NoAnalysis, error |-> "", url |-> PdfUrl,
     status |-> "Status: Up to date"]

ChangesBody(analysis) ==
    [title |-> "Weekly PDF Monitoring Report",
     message |-> "Changes have been detected in the monitored PDF!",
     summary |-> analysis, error |-> "", url |-> PdfUrl,
     status |-> "Status: Updated"]

ErrorBody(e) ==
    [title |-> "PDF Monitoring Error",
     message |-> "An error occurred while monitoring the PDF:",
     summary |-> NoAnalysis, error |-> e, url |-> PdfUrl,
     status |-> ""]

NoBody == [title |-> "", message |-> "", summary |-> NoAnalysis, error |-> "",
           url |-> "", status |-> ""]

(***************************************************************************)
(* State.                                                                  *)
(***************************************************************************)
VARIABLES
    pc,                \* the step main() is about to take
    file,              \* previous_content.txt
    file_at_start,     \* previous_content.txt when the current run began
    last_exit_status,  \* how the previous run ended, "" when there was none
    document,          \* the page texts of the document downloaded in this run
    current_content,   \* main's current_content
    previous_content,  \* main's previous_content
    change_status,     \* main's change_status
    diff_text,         \* main's diff_text
    subject,           \* main's subject
    body,              \* main's body
    sent,              \* the calls of send_email in this run, in order
    llm_requests,      \* the diffs sent to the language model in this run
    saves,             \* the calls of save_current_content in this run
    exc,               \* the exception main() has caught, "" when none
    exit_status        \* how the run ended: "", "success" or "failure"

vars == <<pc, file, file_at_start, last_exit_status, document, current_content, previous_content,
          change_status, diff_text, subject, body, sent, llm_requests,
          saves, exc, exit_status>>

locals == <<last_exit_status, document, current_content, previous_content, change_status, diff_text,
            subject, body>>

\* the state of a run that is about to execute line 119
RunStart ==
    /\ pc' = "Fetching"
    /\ file_at_start' = file
    /\ last_exit_status' = exit_status
    /\ document' = <<>>
    /\ current_content' = <<>>
    /\ previous_content' = <<>>
    /\ change_status' = ""
    /\ diff_text' = <<>>
    /\ subject' = ""
    /\ body' = NoBody
    /\ sent' = <<>>
    /\ llm_requests' = <<>>
    /\ saves' = 0
    /\ exc' = ""
    /\ exit_status' = ""

Init ==
    /\ pc = "Fetching"
    /\ file = AbsentFile
    /\ file_at_start = AbsentFile
    /\ last_exit_status = ""
    /\ document = <<>>
    /\ current_content = <<>>
    /\ previous_content = <<>>
    /\ change_status = ""
    /\ diff_text = <<>>
    /\ subject = ""
    /\ body = NoBody
    /\ sent = <<>>
    /\ llm_requests = <<>>
    /\ saves = 0
    /\ exc = ""
    /\ exit_status = ""

\* send_email(subject, body): the call is recorded; an SMTP failure is
\* printed and swallowed, so the call returns either way
send_email(s, b, delivered) == [subject |-> s, body |-> b, delivered |-> delivered]

(***************************************************************************)
(* main(), one action per step.                                            *)
(***************************************************************************)
\* the scheduler starts the next run once the previous one has ended
main_start ==
    /\ pc \in {"Done", "Failed"}
    /\ RunStart
    /\ UNCHANGED file

\* main storing the snapshot as soon as the text is extracted
main_fetch_saving ==
    /\ pc = "Fetching"
    /\ \E pages \in Documents :
          /\ document' = pages
          /\ current_content' = download_and_extract_pdf(pages)
    /\ file' = save_current_content(current_content')
    /\ pc' = "Loading"
    /\ UNCHANGED <<file_at_start, last_exit_status, previous_content, change_status, diff_text,
                   subject, body, sent, llm_requests, saves, exc, exit_status>>

\* line 124, the download and the extraction succeed
main_fetch ==
    /\ pc = "Fetching"
    /\ \E pages \in Documents :
          /\ document' = pages
          /\ current_content' = download_and_extract_pdf(pages)
    /\ pc' = "Loading"
    /\ UNCHANGED <<file, file_at_start, last_exit_status, previous_content, change_status, diff_text,
                   subject, body, sent, llm_requests, saves, exc, exit_status>>

\* line 124 raises
main_fetch_fail ==
    /\ pc = "Fetching"
    /\ \E e \in FetchErrors : exc' = e
    /\ pc' = "Handling"
    /\ UNCHANGED <<file, file_at_start, locals, sent, llm_requests, saves, exit_status>>

\* line 128
main_load ==
    /\ pc = "Loading"
    /\ previous_content' = load_previous_content(file)
    /\ pc' = "Detecting"
    /\ UNCHANGED <<file, file_at_start, last_exit_status, document, current_content, change_status, diff_text,
                   subject, body, sent, llm_requests, saves, exc, exit_status>>

\* line 128 raises: the file exists and cannot be read
main_load_fail ==
    /\ pc = "Loading"
    /\ file.exists
    /\ \E e \in LoadErrors : exc' = e
    /\ pc' = "Handling"
    /\ UNCHANGED <<file, file_at_start, locals, sent, llm_requests, saves, exit_status>>

\* line 132
main_detect ==
    /\ pc = "Detecting"
    /\ change_status' = detect_changes(previous_content, current_content)[1]
    /\ diff_text' = detect_changes(previous_content, current_content)[2]
    /\ pc' = "Preparing"
    /\ UNCHANGED <<file, file_at_start, last_exit_status, document, current_content, previous_content,
                   subject, body, sent, llm_requests, saves, exc, exit_status>>

\* lines 135-143
main_no_changes ==
    /\ pc = "Preparing"
    /\ change_status = UnchangedStatus
    /\ subject' = NoChangesSubject
    /\ body' = NoChangesBody
    /\ pc' = "Notifying"
    /\ UNCHANGED <<file, file_at_start, last_exit_status, document, current_content, previous_content,
                   change_status, diff_text, sent, llm_requests, saves, exc,
                   exit_status>>

\* main asking the language model about an empty diff
main_analyze_nothing_calling ==
    /\ pc = "Preparing"
    /\ change_status # UnchangedStatus
    /\ diff_text = <<>>
    /\ llm_requests' = Append(llm_requests, Prompt(diff_text))
    /\ subject' = ChangesSubject
    /\ body' = ChangesBody(Generated)
    /\ pc' = "Notifying"
    /\ UNCHANGED <<file, file_at_start, last_exit_status, document, current_content, previous_content,
                   change_status, diff_text, sent, saves, exc, exit_status>>

\* lines 144-161, analyze_changes_with_claude returns at line 67
main_analyze_nothing ==
    /\ pc = "Preparing"
    /\ change_status # UnchangedStatus
    /\ diff_text = <<>>
    /\ subject' = ChangesSubject
    /\ body' = ChangesBody(NothingToAnalyze)
    /\ pc' = "Notifying"
    /\ UNCHANGED <<file, file_at_start, last_exit_status, document, current_content, previous_content,
                   change_status, diff_text, sent, llm_requests, saves, exc,
                   exit_status>>

\* lines 144-161, the language model answers
main_analyze ==
    /\ pc = "Preparing"
    /\ change_status # UnchangedStatus
    /\ diff_text # <<>>
    /\ llm_requests' = Append(llm_requests, Prompt(diff_text))
    /\ subject' = ChangesSubject
    /\ body' = ChangesBody(Generated)
    /\ pc' = "Notifying"
    /\ UNCHANGED <<file, file_at_start, last_exit_status, document, current_content, previous_content,
                   change_status, diff_text, sent, saves, exc, exit_status>>

\* lines 144-161, the call of the language model fails
main_analyze_fallback ==
    /\ pc = "Preparing"
    /\ change_status # UnchangedStatus
    /\ diff_text # <<>>
    /\ llm_requests' = Append(llm_requests, Prompt(diff_text))
    /\ subject' = ChangesSubject
    /\ \E e \in LlmErrors : body' = ChangesBody(Fallback(e, diff_text))
    /\ pc' = "Notifying"
    /\ UNCHANGED <<file, file_at_start, last_exit_status, document, current_content, previous_content,
                   change_status, diff_text, sent, saves, exc, exit_status>>

\* send_email letting a delivery failure escape to main
main_notify_raising ==
    /\ pc = "Notifying"
    /\ \E delivered \in BOOLEAN :
          /\ sent' = Append(sent, send_email(subject, body, delivered))
          /\ pc' = IF delivered THEN "Persisting" ELSE "Handling"
          /\ exc' = IF delivered THEN exc ELSE "SMTPException"
    /\ UNCHANGED <<file, file_at_start, locals, llm_requests, saves, exit_status>>

\* main leaving out the snapshot write when nothing changed
main_notify_skipping_unchanged ==
    /\ pc = "Notifying"
    /\ \E delivered \in BOOLEAN : sent' = Append(sent, send_email(subject, body, delivered))
    /\ pc' = IF change_status = UnchangedStatus THEN "Done" ELSE "Persisting"
    /\ exit_status' = IF change_status = UnchangedStatus THEN "success" ELSE exit_status
    /\ UNCHANGED <<file, file_at_start, locals, llm_requests, saves, exc>>

\* line 165
main_notify ==
    /\ pc = "Notifying"
    /\ \E delivered \in BOOLEAN : sent' = Append(sent, send_email(subject, body, delivered))
    /\ pc' = "Persisting"
    /\ UNCHANGED <<file, file_at_start, locals, llm_requests, saves, exc, exit_status>>

\* main storing the diff in place of the current text
main_save_diff ==
    /\ pc = "Persisting"
    /\ saves' = saves + 1
    /\ file' = save_current_content(diff_text)
    /\ pc' = "Done"
    /\ exit_status' = "success"
    /\ UNCHANGED <<file_at_start, locals, sent, llm_requests, exc>>

\* lines 168-169, and main returns
main_save ==
    /\ pc = "Persisting"
    /\ saves' = saves + 1
    /\ file' = save_current_content(current_content)
    /\ pc' = "Done"
    /\ exit_status' = "success"
    /\ UNCHANGED <<file_at_start, locals, sent, llm_requests, exc>>

\* line 168 raises
main_save_fail ==
    /\ pc = "Persisting"
    /\ saves' = saves + 1
    /\ file' \in FailedSaveOutcomes(file, current_content)
    /\ \E e \in SaveErrors : exc' = e
    /\ pc' = "Handling"
    /\ UNCHANGED <<file_at_start, locals, sent, llm_requests, exit_status>>

\* an error handler that stays silent once a report has been sent
main_except_once ==
    /\ pc = "Handling"
    /\ \E delivered \in BOOLEAN :
          sent' = IF sent = <<>>
                  THEN Append(sent, send_email(ErrorSubject, ErrorBody(exc), delivered))
                  ELSE sent
    /\ pc' = "Failed"
    /\ exit_status' = "failure"
    /\ UNCHANGED <<file, file_at_start, locals, llm_requests, saves, exc>>

\* an error handler that also stores the snapshot
main_except_saving ==
    /\ pc = "Handling"
    /\ \E delivered \in BOOLEAN :
          sent' = Append(sent, send_email(ErrorSubject, ErrorBody(exc), delivered))
    /\ saves' = saves + 1
    /\ file' = save_current_content(current_content)
    /\ pc' = "Failed"
    /\ exit_status' = "failure"
    /\ UNCHANGED <<file_at_start, locals, llm_requests, exc>>

\* an error handler that raises again without sending the error report
main_except_silent ==
    /\ pc = "Handling"
    /\ pc' = "Failed"
    /\ exit_status' = "failure"
    /\ UNCHANGED <<file, file_at_start, locals, sent, llm_requests, saves, exc>>

\* an error handler that sends the error report and does not raise again
main_except_swallowing ==
    /\ pc = "Handling"
    /\ \E delivered \in BOOLEAN :
          sent' = Append(sent, send_email(ErrorSubject, ErrorBody(exc), delivered))
    /\ pc' = "Done"
    /\ exit_status' = "success"
    /\ UNCHANGED <<file, file_at_start, locals, llm_requests, saves, exc>>

\* lines 171-184: the error report, then the exception is raised again
main_except ==
    /\ pc = "Handling"
    /\ \E delivered \in BOOLEAN :
          sent' = Append(sent, send_email(ErrorSubject, ErrorBody(exc), delivered))
    /\ pc' = "Failed"
    /\ exit_status' = "failure"
    /\ UNCHANGED <<file, file_at_start, locals, llm_requests, saves, exc>>

Next ==
    \/ main_start
    \/ main_fetch
    \/ main_fetch_fail
    \/ main_load
    \/ main_load_fail
    \/ main_detect
    \/ main_no_changes
    \/ main_analyze_nothing
    \/ main_analyze
    \/ main_analyze_fallback
    \/ main_notify
    \/ main_save
    \/ main_save_fail
    \/ main_except

Spec == Init /\ [][Next]_vars

(***************************************************************************)
(* The change detector on its own: the stored file and the current text   *)
(* are drawn from all texts of at most MaxLen characters.                  *)
(***************************************************************************)
InitDetect ==
    /\ pc = "Loading"
    /\ file \in {AbsentFile} \cup {save_current_content(t) : t \in TextsUpTo(MaxLen)}
    /\ file_at_start = file
    /\ last_exit_status = ""
    /\ document = <<>>
    /\ current_content \in TextsUpTo(MaxLen)
    /\ previous_content = <<>>
    /\ change_status = ""
    /\ diff_text = <<>>
    /\ subject = ""
    /\ body = NoBody
    /\ sent = <<>>
    /\ llm_requests = <<>>
    /\ saves = 0
    /\ exc = ""
    /\ exit_status = ""

NextDetect ==
    \/ main_load
    \/ main_detect

SpecDetect == InitDetect /\ [][NextDetect]_vars

(***************************************************************************)
(* The summarizer on its own: a one-page document, short or longer than    *)
(* the limits of the summarizer, is compared with a short snapshot,       *)
(* summarized, reported and stored.                                        *)
(***************************************************************************)
LongLengths == {FallbackDiffLimit, FallbackDiffLimit + 1, PromptDiffLimit + 1}

LongTexts == {[i \in 1..n |-> c] : n \in LongLengths, c \in {"a", "b"}}

InitSummarize ==
    /\ pc = "Loading"
    /\ file \in {AbsentFile} \cup {save_current_content(t) : t \in TextsUpTo(1)}
    /\ file_at_start = file
    /\ last_exit_status = ""
    /\ document \in {<<t>> : t \in TextsUpTo(1) \cup LongTexts}
    /\ current_content = download_and_extract_pdf(document)
    /\ previous_content = <<>>
    /\ change_status = ""
    /\ diff_text = <<>>
    /\ subject = ""
    /\ body = NoBody
    /\ sent = <<>>
    /\ llm_requests = <<>>
    /\ saves = 0
    /\ exc = ""
    /\ exit_status = ""

NextSummarize ==
    \/ main_load
    \/ main_detect
    \/ main_no_changes
    \/ main_analyze_nothing
    \/ main_analyze
    \/ main_analyze_fallback
    \/ main_notify
    \/ main_save

SpecSummarize == InitSummarize /\ [][NextSummarize]_vars

(***************************************************************************)
(* Properties of the orchestrator, checked under Spec.                     *)
(***************************************************************************)
SuccessSubjects == {NoChangesSubject, ChangesSubject}
ErrorPath == {"Handling", "Failed"}

\* the success report was handed to send_email, and send_email returned
SuccessReportSent ==
    /\ Len(sent) >= 1
    /\ sent[1].subject \in SuccessSubjects
    /\ sent[1].subject = subject
    /\ sent[1].body = body

\* C1, as claimed: the snapshot write happens only after the Notifier was
\* invoked with the success report and returned, and no run that takes the
\* error path has executed the snapshot write.
C1_NoWriteInFailedRun ==
    /\ saves > 0 => SuccessReportSent
    /\ pc \in ErrorPath => saves = 0

\* C1, amended: save_current_content is called only from the Persisting
\* step, after the Notifier was invoked with the success report and
\* returned; once a run is on the error path it never calls it; and a run
\* that called it is on the error path only because that call itself raised.
C1_WriteOnlyAfterNotify ==
    /\ [](/\ saves > 0 => SuccessReportSent
          /\ saves <= 1
          /\ (pc \in ErrorPath /\ saves > 0) => exc \in SaveErrors)
    /\ [][/\ saves' > saves => (pc = "Persisting" /\ SuccessReportSent /\ Len(sent) = 1)
          /\ (pc \in ErrorPath /\ pc' \in ErrorPath) => (saves' = saves /\ file' = file)]_vars

C1_Witness ==
    /\ pc = "Done"
    /\ saves = 1
    /\ Len(sent) = 1
    /\ sent[1].subject = ChangesSubject
    /\ file = save_current_content(current_content)

\* C2, as claimed: after any run that ends on the error path the snapshot
\* file holds exactly what it held before that run.
C2_FailedRunKeepsSnapshot == pc = "Failed" => file = file_at_start

\* C2, amended: a run that fails before it reaches the snapshot write (in
\* Fetching, Extracting or LoadingPrevious) leaves the snapshot file exactly
\* as it was, and the next run starts from that same baseline; only a run
\* whose snapshot write itself failed can leave the file changed.
C2_FailureBeforeWriteKeepsSnapshot ==
    /\ []((pc \in ErrorPath /\ exc \notin SaveErrors) => (file = file_at_start /\ saves = 0))
    /\ []((pc = "Failed" /\ file # file_at_start) => (exc \in SaveErrors /\ saves = 1))
    /\ [][(pc = "Failed" /\ exc \notin SaveErrors /\ pc' = "Fetching")
             => (file' = file_at_start /\ file_at_start' = file_at_start)]_vars

C2_Witness ==
    /\ pc = "Failed"
    /\ exc \notin SaveErrors
    /\ file.exists
    /\ file.content # <<>>
    /\ file = file_at_start

\* C3: when Fetching fails, the Notifier is invoked exactly once in that
\* run, with subject "PDF Monitor: Error Occurred", and the snapshot write is
\* never invoked.
C3_FetchFailureNotifiesOnce ==
    /\ (pc = "Handling" /\ exc \in FetchErrors) => (sent = <<>> /\ saves = 0)
    /\ (pc = "Failed" /\ exc \in FetchErrors) =>
          /\ Len(sent) = 1
          /\ sent[1].subject = ErrorSubject
          /\ saves = 0
          /\ file = file_at_start

C3_Witness ==
    /\ pc = "Failed"
    /\ exc \in FetchErrors
    /\ Len(sent) = 1
    /\ sent[1].subject = ErrorSubject

\* C4: whenever a step raises to main's top level, an error notification
\* carrying the error description and the monitored URL is attempted first
\* and the same error is then raised again, so the run ends with a failure
\* status and never with success.
C4_ErrorNotifiedThenRaised ==
    /\ [](/\ exc # "" => (pc \in ErrorPath /\ exit_status # "success")
          /\ pc = "Handling" => (exc # "" /\ exit_status = "")
          /\ pc = "Failed" =>
                /\ exit_status = "failure"
                /\ exc # ""
                /\ sent # <<>>
                /\ sent[Len(sent)].subject = ErrorSubject
                /\ sent[Len(sent)].body.error = exc
                /\ sent[Len(sent)].body.url = PdfUrl
          /\ exit_status = "success" => (pc = "Done" /\ exc = ""))
    /\ [][pc = "Handling" =>
             /\ pc' = "Failed"
             /\ exc' = exc
             /\ Len(sent') = Len(sent) + 1]_vars

C4_Witness ==
    /\ pc = "Failed"
    /\ exc \in SaveErrors
    /\ exit_status = "failure"
    /\ sent[Len(sent)].body.error = exc

\* C5: when Detecting yields Unchanged, no language-model call is made in
\* that run, the fixed "no changes" report is sent, and Persisting still
\* runs: the snapshot is rewritten with the current text.
C5_UnchangedSkipsSummaryAndPersists ==
    /\ [](change_status = UnchangedStatus =>
            /\ llm_requests = <<>>
            /\ pc \in {"Persisting", "Done", "Handling", "Failed"} =>
                  /\ sent[1].subject = NoChangesSubject
                  /\ sent[1].body = NoChangesBody
                  /\ sent[1].body.summary = NoAnalysis
            /\ pc = "Done" => (saves = 1 /\ file = save_current_content(current_content)))
    /\ [][change_status = UnchangedStatus =>
            /\ pc = "Preparing" => (pc' = "Notifying" /\ subject' = NoChangesSubject)
            /\ pc = "Notifying" => pc' = "Persisting"
            /\ pc = "Persisting" => saves' = saves + 1]_vars

C5_Witness ==
    /\ pc = "Done"
    /\ change_status = UnchangedStatus
    /\ saves = 1
    /\ file.content = current_content
    /\ file_at_start.content # current_content

Detected == pc = "Preparing"

\* C6, as claimed: for every text A, the empty text and whitespace-only
\* texts included, detect_changes(A, A) yields Unchanged.
C6_SameTextIsUnchanged ==
    (Detected /\ previous_content = current_content) => change_status = UnchangedStatus

\* C6, amended: for every non-empty text A, whitespace-only texts included,
\* detect_changes(A, A) yields Unchanged with an empty payload; for the
\* empty text it yields FirstRun.
C6_SameNonEmptyTextIsUnchanged ==
    (Detected /\ previous_content = current_content) =>
        IF current_content = <<>>
        THEN change_status = FirstRunStatus
        ELSE change_status = UnchangedStatus /\ diff_text = <<>>

C6_Witness ==
    /\ Detected
    /\ previous_content = current_content
    /\ current_content # <<>>
    /\ strip(current_content) = <<>>
    /\ change_status = UnchangedStatus

\* the two file headers and the start of the first hunk header, as
\* detect_changes joins them
DiffOpening == FromMark \o FromFile \o ToMark \o ToFile \o HunkMark \o <<SP, "-">>

\* C7, as claimed: for all texts A and B whose trimmed forms are distinct,
\* detect_changes(A, B) yields Changed with a unified diff, not FirstRun and
\* not Unchanged.
C7_DistinctTrimmedIsChanged ==
    (Detected /\ strip(previous_content) # strip(current_content)) =>
        /\ change_status = ChangedStatus
        /\ StartsWith(diff_text, DiffOpening)

\* C7, amended: for every non-empty text A and every text B whose trimmed
\* forms are distinct, detect_changes(A, B) yields Changed with a non-empty
\* unified diff; when A is empty it yields FirstRun instead.
C7_DistinctTrimmedNonEmptyOldIsChanged ==
    (Detected /\ strip(previous_content) # strip(current_content)) =>
        IF previous_content = <<>>
        THEN change_status = FirstRunStatus
        ELSE /\ change_status = ChangedStatus
             /\ StartsWith(diff_text, DiffOpening)
             /\ Len(diff_text) > Len(DiffOpening)

C7_Witness ==
    /\ Detected
    /\ previous_content # <<>>
    /\ strip(previous_content) = <<>>
    /\ strip(current_content) # <<>>
    /\ change_status = ChangedStatus

\* C8: whenever detect_changes(A, B) yields Changed(diff), applying diff to
\* A under standard unified-diff patch semantics reproduces B exactly.
C8_DiffRoundTrip ==
    (Detected /\ change_status = ChangedStatus) =>
        Patch(previous_content, diff_text) = [ok |-> TRUE, text |-> current_content]

\* C9: when the snapshot file is absent the previous text loads as empty,
\* and for every non-empty current text A detect_changes("", A) yields
\* FirstRun with the whole of A as its payload.
C9_AbsentSnapshotIsFirstRun ==
    /\ (pc \in {"Detecting", "Preparing"} /\ ~file.exists) => previous_content = <<>>
    /\ (Detected /\ previous_content = <<>> /\ current_content # <<>>) =>
          /\ change_status = FirstRunStatus
          /\ diff_text = current_content

C9_Witness ==
    /\ Detected
    /\ ~file.exists
    /\ Len(current_content) = MaxLen
    /\ strip(current_content) # current_content
    /\ change_status = FirstRunStatus
    /\ diff_text = current_content

(***************************************************************************)
(* Properties of the summarizer and the notifier.                          *)
(***************************************************************************)
FallbackKind == "Error analyzing changes with Claude"

C13_EmptyDiffMakesNoCall ==
    /\ (change_status \notin {"", UnchangedStatus} /\ diff_text = <<>>
            /\ pc \in {"Notifying", "Persisting", "Done"} \cup ErrorPath) =>
          /\ body.summary.kind = "No changes to analyze."
          /\ body.summary = NothingToAnalyze
          /\ llm_requests = <<>>
    /\ body.summary.kind = "No changes to analyze." => (diff_text = <<>> /\ llm_requests = <<>>)

C13_Witness ==
    /\ pc = "Done"
    /\ diff_text = <<>>
    /\ sent[1].body.summary.kind = "No changes to analyze."
    /\ llm_requests = <<>>

(***************************************************************************)
(* Properties of whole runs, checked under Spec.                           *)
(***************************************************************************)
\* C14: after every run that completes successfully (FirstRun, Unchanged or
\* Changed) the snapshot file holds exactly the text extracted in that run;
\* with no previous snapshot the report subject is "PDF Monitor: Changes
\* Detected" and the snapshot afterwards is exactly the current text.
C14_SuccessfulRunStoresCurrentText ==
    /\ pc = "Done" =>
          /\ exit_status = "success"
          /\ change_status \in {FirstRunStatus, UnchangedStatus, ChangedStatus}
          /\ current_content = download_and_extract_pdf(document)
          /\ file.exists
          /\ file.content = current_content
    /\ (pc = "Done" /\ ~file_at_start.exists) =>
          /\ change_status = FirstRunStatus
          /\ Len(sent) = 1
          /\ sent[1].subject = "PDF Monitor: Changes Detected"
          /\ file.content = current_content

C14_Witness ==
    /\ pc = "Done"
    /\ ~file_at_start.exists
    /\ Len(splitlines(current_content)) >= 2
    /\ sent[1].subject = "PDF Monitor: Changes Detected"
    /\ file.content = current_content

ReportSubjects ==
    {"PDF Monitor: No Changes This Week", "PDF Monitor: Changes Detected",
     "PDF Monitor: Error Occurred"}

\* the report of a run whose stored snapshot equals the text it extracted
SameAsSnapshotReported ==
    /\ file_at_start.exists
    /\ previous_content = current_content
    /\ file_at_start.content = current_content
    /\ pc \in {"Persisting", "Done"}

\* C15, as claimed: whenever the previous snapshot and the current text are
\* equal, the report has subject "PDF Monitor: No Changes This Week" and a
\* body containing "Status: Up to date", and the summarizer is not called;
\* every notification has one of the three subjects.
C15_EqualTextsReportNoChanges ==
    /\ SameAsSnapshotReported =>
          /\ sent[1].subject = "PDF Monitor: No Changes This Week"
          /\ sent[1].body.status = "Status: Up to date"
          /\ sent[1].body.summary = NoAnalysis
          /\ llm_requests = <<>>
    /\ \A i \in 1..Len(sent) : sent[i].subject \in ReportSubjects

\* C15, amended: whenever the previous snapshot and the current text are
\* equal and not empty, the report has subject "PDF Monitor: No Changes This
\* Week" and a body containing "Status: Up to date", and the summarizer is
\* not called; when both are empty the run is a first run, reported as
\* "PDF Monitor: Changes Detected" with the summarizer called on an empty
\* diff; every notification has one of the three subjects.
C15_EqualNonEmptyTextsReportNoChanges ==
    /\ SameAsSnapshotReported =>
          IF current_content = <<>>
          THEN /\ sent[1].subject = "PDF Monitor: Changes Detected"
               /\ sent[1].body.status = "Status: Updated"
               /\ sent[1].body.summary = NothingToAnalyze
               /\ llm_requests = <<>>
          ELSE /\ sent[1].subject = "PDF Monitor: No Changes This Week"
               /\ sent[1].body.status = "Status: Up to date"
               /\ sent[1].body.summary = NoAnalysis
               /\ llm_requests = <<>>
    /\ \A i \in 1..Len(sent) : sent[i].subject \in ReportSubjects

C15_Witness ==
    /\ SameAsSnapshotReported
    /\ current_content # <<>>
    /\ sent[1].body.status = "Status: Up to date"
    /\ pc = "Persisting"

RECURSIVE JoinLines(_)
\* the texts ts with a line terminator between neighbours
JoinLines(ts) ==
    IF ts = <<>> THEN <<>>
    ELSE IF Len(ts) = 1 THEN ts[1]
    ELSE ts[1] \o <<NL>> \o JoinLines(Tail(ts))

HasText(p) == p # <<>>

\* C16: extraction is best-effort per page: a page without extractable
\* text adds nothing and does not fail the extraction, and the result is
\* the texts of the other pages, in page order, joined by a newline and
\* trimmed.
C16_ExtractionSkipsEmptyPages ==
    (pc # "Fetching" /\ exc \notin FetchErrors) =>
        current_content = strip(JoinLines(SelectSeq(document, HasText)))

C16_Witness ==
    /\ pc = "Loading"
    /\ exc = ""
    /\ document = << <<"a">>, <<>>, <<"b">> >>
    /\ current_content = <<"a", NL, "b">>

\* C17, as claimed: in every run, whichever step fails or succeeds, the
\* snapshot write included, the Notifier is invoked exactly once, with the
\* success report or with the error report, never both.
C17_NotifierInvokedOnce ==
    /\ Len(sent) <= 1
    /\ pc \in {"Done", "Failed"} => Len(sent) = 1

\* C17, amended: a run that succeeds invokes the Notifier exactly once, with
\* the success report; a run that fails before Notifying invokes it exactly
\* once, with the error report; a run whose snapshot write fails invokes it
\* twice, first with the success report and then with the error report.
C17_NotifierInvokedOnceUnlessWriteFails ==
    /\ Len(sent) <= 2
    /\ pc = "Done" => (Len(sent) = 1 /\ sent[1].subject \in SuccessSubjects)
    /\ (pc = "Failed" /\ exc \notin SaveErrors) =>
          (Len(sent) = 1 /\ sent[1].subject = ErrorSubject)
    /\ (pc = "Failed" /\ exc \in SaveErrors) =>
          /\ Len(sent) = 2
          /\ sent[1].subject \in SuccessSubjects
          /\ sent[2].subject = ErrorSubject

C17_Witness ==
    /\ pc = "Failed"
    /\ exc \in SaveErrors
    /\ Len(sent) = 2
    /\ sent[1].subject = NoChangesSubject
    /\ sent[2].subject = ErrorSubject

\* a run that follows a successful run and has classified the same text
SteadyState ==
    /\ last_exit_status = "success"
    /\ change_status # ""
    /\ file_at_start.exists
    /\ file_at_start.content = current_content

\* C18, as claimed: if a run completes successfully with text T and the
\* next run extracts the same T, the empty text included, the next run is
\* classified Unchanged, reports "PDF Monitor: No Changes This Week" and
\* makes no language-model call.
C18_SameTextNextRunUnchanged ==
    SteadyState =>
        /\ change_status = UnchangedStatus
        /\ llm_requests = <<>>
        /\ subject \in {"", NoChangesSubject}

\* C18, amended: a run that completes successfully with text T leaves T as
\* the baseline of the next run; if the next run extracts the same T and T
\* is not empty, it is classified Unchanged, reports "PDF Monitor: No
\* Changes This Week" and makes no language-model call; if T is empty, it
\* is classified FirstRun again and reports "PDF Monitor: Changes
\* Detected", still without a language-model call.
C18_SameNonEmptyTextNextRunUnchanged ==
    /\ [](SteadyState =>
            /\ llm_requests = <<>>
            /\ diff_text = <<>>
            /\ IF current_content = <<>>
               THEN change_status = FirstRunStatus /\ subject \in {"", ChangesSubject}
               ELSE change_status = UnchangedStatus /\ subject \in {"", NoChangesSubject})
    /\ [][(pc = "Done" /\ pc' = "Fetching") =>
             /\ file' = [exists |-> TRUE, content |-> current_content]
             /\ file_at_start' = file']_vars

C18_Witness ==
    /\ SteadyState
    /\ pc = "Done"
    /\ current_content # <<>>
    /\ change_status = UnchangedStatus
    /\ sent[1].subject = NoChangesSubject
    /\ file = file_at_start

====
